---- MODULE Spec2Model ----
(***************************************************************************)
(* A model of booktool: the Part value and its merge, the tag read/write   *)
(* dispatch for MP3 and MP4 containers, disc flattening, the name          *)
(* sanitizer and the non-overwriting move.                                 *)
(*                                                                         *)
(* Python strings are modelled as sequences of one-character strings, so   *)
(* that formatting, parsing and the regular-expression substitutions are   *)
(* computed character by character, as the code does.                      *)
(***************************************************************************)
EXTENDS Integers, Sequences, FiniteSets, TLC

VARIABLES
    \* Part.merge: the two operands, the flag and what the call gave
    primary, secondary, raise_on_conflicts, merged,
    \* Part.from_string: the string given and what the call gave
    given, parsed,
    \* the audio files as persisted (tags, name, directory)
    store,
    \* the last tag operations called and what they gave, the latest first
    ret,
    \* flatten_discs in progress, the group as it was when the run began, and
    \* how many times a flatten run has rewritten each file's track
    fl, begun, rewrites,
    \* sanitize: the text given and the results of its successive applications
    text, out,
    \* move: the directory entries and the last call with what it gave
    fs, mv,
    \* canonicalize: the run in progress and the directory each file of the group
    \* is in
    cz, loc

vars == <<primary, secondary, raise_on_conflicts, merged, given, parsed, store, ret,
          fl, begun, rewrites, text, out, fs, mv, cz, loc>>

partVars == <<primary, secondary, raise_on_conflicts, merged, given, parsed>>
tagVars == <<store, ret, fl, begun, rewrites>>
textVars == <<text, out>>
moveVars == <<fs, mv, cz, loc>>

(***************************************************************************)
(* Bounds of the model.                                                    *)
(***************************************************************************)
\* the largest number an input field holds
MaxNum == 2

\* the longest text of a TRCK frame read, and the longest base name of a file
MaxTagLen == 3

MaxRootLen == 2

\* the files of a group, the largest disc and track index their tags hold, and
\* how many times a flatten_discs run is interrupted
NumFiles == 3

MaxDisc == 2

MaxTrack == 2

MaxInterrupts == 1

\* the longest short text given to sanitize, the most initials of a name, and the
\* most characters trailing a title
MaxLen == 5

MaxInitials == 2

MaxTrail == 3

\* the names of the directory move acts on
NumNames == 3

\* Python's None, for an Optional[int] field
None == -1

OptNum == {None} \cup (0 .. MaxNum)

\* bool(x) of an Optional[int]: None and 0 are falsy
Truthy(x) == x # None /\ x # 0

\* Python's `a or b` on Optional[int] values
Or(a, b) == IF Truthy(a) THEN a ELSE b

(***************************************************************************)
(* Part: NamedTuple (index, total).                                        *)
(***************************************************************************)
Part(i, t) == [index |-> i, total |-> t]

Parts == [index : OptNum, total : OptNum]

\* what a call gave: err = "" and a value, or the exception raised
Ok(v) == [err |-> "", val |-> v]
Raise(e) == [err |-> e, val |-> Part(None, None)]
NotCalled == [err |-> "not called", val |-> Part(None, None)]

\* a merge that prefers self's index whenever it is not None, 0 included
merge_index_zero_present(self, other) ==
    IF self.index # None THEN self.index ELSE other.index

\* Part.merge, index computed as the code's line 43 does
merge_index(self, other) == Or(self.index, other.index)

merge_total(self, other) == Or(self.total, other.total)

merge_conflict(self, other) ==
    \/ Truthy(other.index) /\ merge_index(self, other) # other.index
    \/ Truthy(other.total) /\ merge_total(self, other) # other.total

merge(self, other, raise) ==
    IF raise /\ merge_conflict(self, other)
    THEN Raise("ValueError")
    ELSE Ok(Part(merge_index(self, other), merge_total(self, other)))

\* the strings of up to n characters among chars
StringsOver(chars, n) == UNION {[1 .. k -> chars] : k \in 0 .. n}

(***************************************************************************)
(* Strings: str(x) of an Optional[int], int(s) of a string, str.find.      *)
(***************************************************************************)
DigitChar == <<"0", "1", "2", "3", "4", "5", "6", "7", "8", "9">>

Digits == {DigitChar[k] : k \in 1 .. 10}

DigitVal(c) == (CHOOSE k \in 1 .. 10 : DigitChar[k] = c) - 1

RECURSIVE StrNat(_)
StrNat(n) == IF n < 10 THEN <<DigitChar[n + 1]>>
             ELSE StrNat(n \div 10) \o <<DigitChar[(n % 10) + 1]>>

\* str(x) as an f-string formats it: "None" for None
Str(x) == IF x = None THEN <<"N", "o", "n", "e">> ELSE StrNat(x)

IsNumeric(s) == Len(s) > 0 /\ \A k \in 1 .. Len(s) : s[k] \in Digits

RECURSIVE IntOf(_)
\* int(s) of a string of decimal digits
IntOf(s) == IF Len(s) = 0 THEN 0
            ELSE 10 * IntOf(SubSeq(s, 1, Len(s) - 1)) + DigitVal(s[Len(s)])

\* string.find(c): the 1-based place of the first c, 0 when there is none
Find(s, c) == IF \E k \in 1 .. Len(s) : s[k] = c
              THEN CHOOSE k \in 1 .. Len(s) :
                       s[k] = c /\ \A j \in 1 .. (k - 1) : s[j] # c
              ELSE 0

\* the segments Part.from_string cuts its string into (lines 31-36)
index_string(string) ==
    IF Find(string, "/") # 0 THEN SubSeq(string, 1, Find(string, "/") - 1)
    ELSE string

total_string(string) ==
    IF Find(string, "/") # 0
    THEN SubSeq(string, Find(string, "/") + 1, Len(string))
    ELSE <<>>

\* a from_string that takes the number 0 for an empty segment
from_string_zero_absent(string) ==
    LET i == index_string(string)
        t == total_string(string)
    IN  IF (Len(i) > 0 /\ ~IsNumeric(i)) \/ (Len(t) > 0 /\ ~IsNumeric(t))
        THEN Raise("ValueError")
        ELSE Ok(Part(IF Len(i) > 0 /\ IntOf(i) # 0 THEN IntOf(i) ELSE None,
                     IF Len(t) > 0 /\ IntOf(t) # 0 THEN IntOf(t) ELSE None))

\* Part.from_string: int() raises ValueError on a segment that is no number
from_string(string) ==
    LET i == index_string(string)
        t == total_string(string)
    IN  IF (Len(i) > 0 /\ ~IsNumeric(i)) \/ (Len(t) > 0 /\ ~IsNumeric(t))
        THEN Raise("ValueError")
        ELSE Ok(Part(IF Len(i) > 0 THEN IntOf(i) ELSE None,
                     IF Len(t) > 0 THEN IntOf(t) ELSE None))

\* re.search(r"\d+", root): the first run of digits, <<>> when there is none
first_digits(root) ==
    IF \E k \in 1 .. Len(root) : root[k] \in Digits
    THEN LET a == CHOOSE k \in 1 .. Len(root) :
                      root[k] \in Digits /\ \A j \in 1 .. (k - 1) : root[j] \notin Digits
             b == CHOOSE k \in a .. Len(root) :
                      /\ \A j \in a .. k : root[j] \in Digits
                      /\ (k = Len(root) \/ root[k + 1] \notin Digits)
         IN  SubSeq(root, a, b)
    ELSE <<>>

\* Part.from_path of a file: root is its base name without the extension,
\* ndir the number of audio names os.listdir gives for its directory
from_path(file) ==
    Part(IF first_digits(file.root) # <<>> THEN IntOf(first_digits(file.root)) ELSE None,
         file.ndir)

(***************************************************************************)
(* An audio file as persisted: the container kind, the ID3 version and     *)
(* the TRCK and TPOS frames (MP3: no frame, or one frame with its text),   *)
(* the trkn and disk tags (MP4: a list of tuples), and where the file is.  *)
(***************************************************************************)
\* the result of a reading call: a Part, or the exception raised
get_track_mp3(file, ignore_conflicts) ==
    LET metadata == from_string(IF file.TRCK = <<>> THEN <<>> ELSE file.TRCK[1])
        filesystem == from_path(file)
        part == merge(metadata.val, filesystem, ~ignore_conflicts)
    IN  IF metadata.err # "" THEN metadata
        ELSE IF part.err # "" THEN part
        ELSE IF part.val.index = None \/ part.val.total = None
        THEN Raise("ValueError")
        ELSE part

\* Part(*trkn) of a tuple of up to two components
PartOfTuple(t) == Part(IF Len(t) >= 1 THEN t[1] ELSE None,
                       IF Len(t) >= 2 THEN t[2] ELSE None)

\* a get_track_mp4 that returns the merged Part without the check for validity
get_track_mp4_unchecked(file, ignore_conflicts) ==
    LET trkns == IF file.trkn = <<>> THEN << <<0, 0>> >> ELSE file.trkn
    IN  IF Len(trkns) > 1 THEN Raise("ValueError")
        ELSE IF Len(trkns[1]) > 2 THEN Raise("TypeError")
        ELSE merge(IF Len(trkns[1]) = 0 THEN Part(None, None)
                   ELSE IF Len(trkns[1]) = 1 THEN Part(trkns[1][1], None)
                   ELSE Part(trkns[1][1], trkns[1][2]),
                   from_path(file), ~ignore_conflicts)

get_track_mp4(file, ignore_conflicts) ==
    LET trkns == IF file.trkn = <<>> THEN << <<0, 0>> >> ELSE file.trkn
        filesystem == from_path(file)
        part == merge(PartOfTuple(trkns[1]), filesystem, ~ignore_conflicts)
    IN  IF Len(trkns) > 1 THEN Raise("ValueError")
        ELSE IF Len(trkns[1]) > 2 THEN Raise("TypeError")
        ELSE IF part.err # "" THEN part
        ELSE IF part.val.index = None \/ part.val.total = None
        THEN Raise("ValueError")
        ELSE part

\* get_track_str: mutagen.File(file) opens the container, then dispatch on its type
get_track(file, ignore_conflicts) ==
    IF file.kind = "mp3" THEN get_track_mp3(file, ignore_conflicts)
    ELSE get_track_mp4(file, ignore_conflicts)

\* the text set_track_mp3 gives the TRCK frame
TRCK_text(part) == Str(part.index) \o <<"/">> \o Str(part.total)

\* the ID3 v2 minor version set_track_mp3 saves with (lines 147-153)
v2_version(version) ==
    LET minor == IF version[1] < 2 THEN 3 ELSE version[2]
    IN  IF minor < 3 THEN 3 ELSE minor

\* what a writing call gave: the exception raised (or ""), the file as it is
\* persisted after the call, and whether file.save() was called
Wrote(file, saved) == [err |-> "", file |-> file, saved |-> saved]
WriteRaise(e, file) == [err |-> e, file |-> file, saved |-> FALSE]

\* a set_track_mp3 without the short-circuit on an equal existing frame
set_track_mp3_always(file, part, dry_run) ==
    IF dry_run THEN Wrote(file, FALSE)
    ELSE Wrote([file EXCEPT !.TRCK = <<TRCK_text(part)>>,
                            !.version = <<2, v2_version(file.version)>>], TRUE)

set_track_mp3(file, part, dry_run) ==
    IF file.TRCK # <<>> /\ file.TRCK[1] = TRCK_text(part)
    THEN Wrote(file, FALSE)
    ELSE IF dry_run THEN Wrote(file, FALSE)
    ELSE Wrote([file EXCEPT !.TRCK = <<TRCK_text(part)>>,
                            !.version = <<2, v2_version(file.version)>>], TRUE)

set_track_mp4(file, part, dry_run) ==
    IF Len(file.trkn) > 1 THEN WriteRaise("ValueError", file)
    ELSE IF file.trkn # <<>> /\ file.trkn = << <<part.index, part.total>> >>
    THEN Wrote(file, FALSE)
    ELSE IF dry_run THEN Wrote(file, FALSE)
    ELSE Wrote([file EXCEPT !.trkn = << <<part.index, part.total>> >>], TRUE)

\* set_track_str passes dry_run on
set_track(file, part, dry_run) ==
    IF file.kind = "mp3" THEN set_track_mp3(file, part, dry_run)
    ELSE set_track_mp4(file, part, dry_run)

get_disc_mp3(file) == from_string(IF file.TPOS = <<>> THEN <<>> ELSE file.TPOS[1])

\* `disk, = ...` raises ValueError unless the list holds exactly one tuple
get_disc_mp4(file) ==
    LET disks == IF file.disk = <<>> THEN << <<0, 0>> >> ELSE file.disk
    IN  IF Len(disks) # 1 THEN Raise("ValueError")
        ELSE IF Len(disks[1]) > 2 THEN Raise("TypeError")
        ELSE Ok(PartOfTuple(disks[1]))

get_disc(file) ==
    IF file.kind = "mp3" THEN get_disc_mp3(file) ELSE get_disc_mp4(file)

\* file.save() with no argument writes ID3 v2.4
del_disc_mp3(file, dry_run) ==
    IF dry_run THEN Wrote(file, FALSE)
    ELSE Wrote([file EXCEPT !.TPOS = <<>>, !.version = <<2, 4>>], TRUE)

del_disc_mp4(file, dry_run) ==
    IF dry_run THEN Wrote(file, FALSE)
    ELSE Wrote([file EXCEPT !.disk = <<>>], TRUE)

\* del_disc on an opened file
del_disc(file, dry_run) ==
    IF file.kind = "mp3" THEN del_disc_mp3(file, dry_run)
    ELSE del_disc_mp4(file, dry_run)

\* del_disc on a path: line 219 calls del_disc(file), dry_run left at its default
del_disc_str(file, dry_run) == del_disc(file, FALSE)

(***************************************************************************)
(* The values the variables of the other parts keep while one part runs.   *)
(***************************************************************************)
NoFlatten == [pc |-> "idle", i |-> 0, dry_run |-> FALSE, inc |-> <<>>, interrupts |-> 0]

PartIdle ==
    /\ primary = Part(None, None)
    /\ secondary = Part(None, None)
    /\ raise_on_conflicts = FALSE
    /\ merged = NotCalled
    /\ given = <<>>
    /\ parsed = NotCalled

TagIdle ==
    /\ store = <<>>
    /\ ret = <<>>
    /\ fl = NoFlatten
    /\ begun = <<>>
    /\ rewrites = <<>>

TextIdle == text = <<>> /\ out = <<>>

NoCanon == [pc |-> "idle", i |-> 0, dry_run |-> FALSE, err |-> "", others |-> 0,
            album |-> <<>>, paths |-> <<>>, read |-> <<>>]

MoveIdle == fs = <<>> /\ mv = <<>> /\ cz = NoCanon /\ loc = <<>>

(***************************************************************************)
(* Part.merge called on any two Parts.                                     *)
(***************************************************************************)
\* the Parts of the specification's example, merge(Part(3, 10), Part(5, 10))
ExampleParts == {Part(3, 10), Part(5, 10)}

InitMerge ==
    /\ primary \in Parts \cup ExampleParts
    /\ secondary \in Parts \cup ExampleParts
    /\ raise_on_conflicts \in BOOLEAN
    /\ merged = NotCalled
    /\ given = <<>> /\ parsed = NotCalled
    /\ TagIdle /\ TextIdle /\ MoveIdle

Merge ==
    /\ merged = NotCalled
    /\ merged' = merge(primary, secondary, raise_on_conflicts)
    /\ UNCHANGED <<primary, secondary, raise_on_conflicts, given, parsed,
                   tagVars, textVars, moveVars>>

NextMerge == Merge

SpecMerge == InitMerge /\ [][NextMerge]_vars

\* C1: merge gives index = primary.index when that is neither None nor 0, else
\* secondary.index, and the same for total; with raise_on_conflicts it fails
\* exactly when a truthy field of secondary differs from the computed field, and
\* without it never fails; merge(Part(3, 10), Part(5, 10)) fails with the flag and
\* gives Part(3, 10) without it.
C1_merge ==
    merged # NotCalled =>
        LET i == IF primary.index \notin {None, 0} THEN primary.index ELSE secondary.index
            t == IF primary.total \notin {None, 0} THEN primary.total ELSE secondary.total
            conflict == \/ secondary.index \notin {None, 0} /\ secondary.index # i
                        \/ secondary.total \notin {None, 0} /\ secondary.total # t
        IN  /\ IF raise_on_conflicts /\ conflict
               THEN merged.err # ""
               ELSE merged = Ok(Part(i, t))
            /\ (primary = Part(3, 10) /\ secondary = Part(5, 10)) =>
                   IF raise_on_conflicts THEN merged.err # ""
                   ELSE merged = Ok(Part(3, 10))

\* the example's conflicting merge has been called and has failed
C1_witness ==
    /\ primary = Part(3, 10) /\ secondary = Part(5, 10)
    /\ raise_on_conflicts
    /\ merged.err = "ValueError"

(***************************************************************************)
(* get_track called on one file, for every tag value and every place in    *)
(* the filesystem within the bounds.                                       *)
(***************************************************************************)
\* the characters of a TRCK text: digits, the separator, and "x" for a character
\* int() does not accept
TagChars == {"0", "1", "2", "/", "x"}

\* the characters of a base name: a letter and digits
RootChars == {"a", "0", "1"}

\* the base names, without the extension, of the files read
Roots == StringsOver(RootChars, MaxRootLen) \ {<<>>}

TuplesOver(nums, n) == UNION {[1 .. k -> nums] : k \in 0 .. n}

\* the lists a trkn tag holds: none, one tuple of up to 3 components, two pairs
TrknLists ==
    {<<>>} \cup {<<t>> : t \in TuplesOver(0 .. MaxNum, 3)}
           \cup {<<t, u>> : t, u \in [1 .. 2 -> 0 .. MaxNum]}

File(kind, version, TRCK, TPOS, trkn, disk, root, ndir) ==
    [kind |-> kind, version |-> version, TRCK |-> TRCK, TPOS |-> TPOS,
     trkn |-> trkn, disk |-> disk, root |-> root, ndir |-> ndir]

\* the files of a kind that get_track is called on
ReadFiles(kind) ==
    IF kind = "mp3"
    THEN {File("mp3", <<2, 4>>, TRCK, <<>>, <<>>, <<>>, root, ndir) :
             TRCK \in {<<>>} \cup {<<t>> : t \in StringsOver(TagChars, MaxTagLen)},
             root \in Roots, ndir \in 0 .. MaxNum}
    ELSE {File("mp4", <<0, 0>>, <<>>, <<>>, trkn, <<>>, root, ndir) :
             trkn \in TrknLists,
             root \in Roots, ndir \in 0 .. MaxNum}

\* the record of a call of a tag operation on store[path]: its arguments, the
\* file as persisted before it, and what it gave
Called(op, path, part, flag, before, err, val, saved) ==
    [op |-> op, path |-> path, part |-> part, flag |-> flag, before |-> before,
     err |-> err, val |-> val, saved |-> saved]

InitGetTrack ==
    /\ \E kind \in {"mp3", "mp4"} : store \in {<<f>> : f \in ReadFiles(kind)}
    /\ ret = <<>>
    /\ fl = NoFlatten /\ begun = <<>> /\ rewrites = <<>>
    /\ PartIdle /\ TextIdle /\ MoveIdle

GetTrack(ignore_conflicts) ==
    /\ ret = <<>>
    /\ LET r == get_track(store[1], ignore_conflicts)
       IN  ret' = <<Called("get_track", 1, Part(None, None), ignore_conflicts,
                           store[1], r.err, r.val, FALSE)>>
    /\ UNCHANGED <<store, fl, begun, rewrites, partVars, textVars, moveVars>>

NextGetTrack == \E ignore_conflicts \in BOOLEAN : GetTrack(ignore_conflicts)

SpecGetTrack == InitGetTrack /\ [][NextGetTrack]_vars

\* the Part the container's track tag holds, when it can be read
Embedded(file) ==
    IF file.kind = "mp3"
    THEN from_string(IF file.TRCK = <<>> THEN <<>> ELSE file.TRCK[1]).val
    ELSE IF file.trkn = <<>> THEN Part(0, 0) ELSE PartOfTuple(file.trkn[1])

\* C2: get_track (MP3 and MP4) either fails or returns a Part with both fields
\* present, and it fails whenever a field of the merge of the embedded Part with
\* the Part inferred from the filesystem is absent.
C2_get_track_complete ==
    \A k \in 1 .. Len(ret) :
        ret[k].op = "get_track" =>
            LET m == merge(Embedded(ret[k].before), from_path(ret[k].before), FALSE).val
            IN  /\ ret[k].err = "" =>
                      ret[k].val.index # None /\ ret[k].val.total # None
                /\ (m.index = None \/ m.total = None) => ret[k].err # ""

\* get_track has failed on an MP4 file whose tag and name both give no index,
\* with conflicts ignored
C2_witness ==
    /\ ret # <<>> /\ ret[1].op = "get_track" /\ ret[1].flag
    /\ store[1].kind = "mp4" /\ store[1].trkn = << <<0, 2>> >>
    /\ store[1].root = <<"a">>
    /\ ret[1].err = "ValueError"

(***************************************************************************)
(* The writing operations called, one after another, on one file.          *)
(***************************************************************************)
\* the ID3 versions a file comes with: 1.1, 2.2, 2.3, 2.4
Versions == {<<1, 1>>, <<2, 2>>, <<2, 3>>, <<2, 4>>}

\* the Parts given to set_track: both fields numbers, as its callers give them
WriteParts == [index : 0 .. MaxNum, total : 0 .. MaxNum]

WriteFiles ==
    {File("mp3", version, TRCK, TPOS, <<>>, <<>>, <<"0", "1">>, 1) :
        version \in Versions,
        TRCK \in {<<>>, <<<<"x">>>>, <<<<"0", "1", "/", "2">>>>}
                  \cup {<<TRCK_text(p)>> : p \in WriteParts},
        TPOS \in {<<>>, <<<<"1", "/", "2">>>>}}
    \cup
    {File("mp4", <<0, 0>>, <<>>, <<>>, trkn, disk, <<"0", "1">>, 1) :
        trkn \in {<<>>, << <<1, 2>>, <<2, 2>> >>}
                  \cup {<< <<p.index, p.total>> >> : p \in WriteParts},
        disk \in {<<>>, << <<1, 2>> >>}}

\* ret with one more call, the latest first, the last two kept
Record(call) == IF ret = <<>> THEN <<call>> ELSE <<call, ret[1]>>

InitTags ==
    /\ store \in {<<f>> : f \in WriteFiles}
    /\ ret = <<>>
    /\ fl = NoFlatten /\ begun = <<>> /\ rewrites = <<>>
    /\ PartIdle /\ TextIdle /\ MoveIdle

\* set_track(path, part, dry_run)
SetTrack(part, dry_run) ==
    /\ LET w == set_track(store[1], part, dry_run)
       IN  /\ store' = [store EXCEPT ![1] = w.file]
           /\ ret' = Record(Called("set_track", 1, part, dry_run, store[1],
                                   w.err, Part(None, None), w.saved))
    /\ UNCHANGED <<fl, begun, rewrites, partVars, textVars, moveVars>>

\* del_disc(mutagen.File(path), dry_run): on the opened file
DelDisc(dry_run) ==
    /\ LET w == del_disc(store[1], dry_run)
       IN  /\ store' = [store EXCEPT ![1] = w.file]
           /\ ret' = Record(Called("del_disc", 1, Part(None, None), dry_run, store[1],
                                   w.err, Part(None, None), w.saved))
    /\ UNCHANGED <<fl, begun, rewrites, partVars, textVars, moveVars>>

\* del_disc(path, dry_run): on the path
DelDiscStr(dry_run) ==
    /\ LET w == del_disc_str(store[1], dry_run)
       IN  /\ store' = [store EXCEPT ![1] = w.file]
           /\ ret' = Record(Called("del_disc_str", 1, Part(None, None), dry_run, store[1],
                                   w.err, Part(None, None), w.saved))
    /\ UNCHANGED <<fl, begun, rewrites, partVars, textVars, moveVars>>

NextTags ==
    \/ \E part \in WriteParts, dry_run \in BOOLEAN : SetTrack(part, dry_run)
    \/ \E dry_run \in BOOLEAN : DelDisc(dry_run)
    \/ \E dry_run \in BOOLEAN : DelDiscStr(dry_run)

SpecTags == InitTags /\ [][NextTags]_vars

\* the container holds exactly this value as its track: the TRCK frame with the
\* text "<index>/<total>", or the one trkn pair (index, total)
Holds(file, part) ==
    IF file.kind = "mp3"
    THEN file.TRCK = <<Str(part.index) \o <<"/">> \o Str(part.total)>>
    ELSE file.trkn = << <<part.index, part.total>> >>

\* two set_track calls in a row with no dry run, the same Part, neither failing
TwoSetTracks ==
    /\ Len(ret) = 2
    /\ ret[1].op = "set_track" /\ ret[2].op = "set_track"
    /\ ret[1].part = ret[2].part
    /\ ~ret[1].flag /\ ~ret[2].flag
    /\ ret[1].err = "" /\ ret[2].err = ""

\* C3: with dry_run false, two set_track calls in a row on the same file with the
\* same Part save exactly once, in the first call, and the second finds the
\* container holding the value and does not save; when the container held the
\* value before the first call, neither saves.
C3_set_track_once ==
    TwoSetTracks =>
        /\ Holds(ret[1].before, ret[1].part)
        /\ ~ret[1].saved
        /\ ret[2].saved = ~Holds(ret[2].before, ret[2].part)
        /\ store[1] = ret[1].before

\* set_track saved in the first of two such calls on an MP3 file and not in the second
C3_witness ==
    /\ TwoSetTracks
    /\ store[1].kind = "mp3"
    /\ ret[2].saved /\ ~ret[1].saved
    /\ ret[2].before.TRCK = <<<<"0", "1", "/", "2">>>>
    /\ ret[1].part = Part(1, 2)

\* the track and disc tags of a file
Tags(file) == <<file.TRCK, file.TPOS, file.trkn, file.disk>>

\* C4: with dry_run true, set_track, del_disc (on a path or an opened file) and
\* flatten_discs leave the persisted track and disc tags of every file as they were.
C4_dry_run_persists_nothing ==
    /\ (ret # <<>> /\ ret[1].flag
            /\ ret[1].op \in {"set_track", "del_disc", "del_disc_str"})
           => Tags(store[ret[1].path]) = Tags(ret[1].before)
    /\ (fl.pc # "idle" /\ fl.dry_run)
           => \A f \in 1 .. Len(store) : Tags(store[f]) = Tags(begun[f])

(***************************************************************************)
(* flatten_discs on a group of files, one persisted write at a time, and   *)
(* the interruption of a run between two writes.                           *)
(***************************************************************************)
Paths == 1 .. NumFiles

\* a file of the group, with or without a track tag and a disc tag
GroupFile(kind, root, track, disc) ==
    IF kind = "mp3"
    THEN File("mp3", <<2, 3>>,
              IF track = None THEN <<>> ELSE <<Str(track) \o <<"/">> \o Str(MaxTrack)>>,
              IF disc = None THEN <<>> ELSE <<Str(disc) \o <<"/">> \o Str(MaxDisc)>>,
              <<>>, <<>>, root, NumFiles)
    ELSE File("mp4", <<0, 0>>, <<>>, <<>>,
              IF track = None THEN <<>> ELSE << <<track, MaxTrack>> >>,
              IF disc = None THEN <<>> ELSE << <<disc, MaxDisc>> >>,
              root, NumFiles)

\* the track tags of a group: every file tagged, or none
GroupTracks == [Paths -> 1 .. MaxTrack] \cup {[f \in Paths |-> None]}

\* the base names of a group: each file named after its place in the group, or,
\* in a group without track tags, the first file with a name without a number
GroupRoots(track) ==
    {[f \in Paths |-> Str(f)]}
    \cup (IF track[1] = None
          THEN {[f \in Paths |-> IF f = 1 THEN <<"a">> ELSE Str(f)]}
          ELSE {})

\* the groups of files with the given track tags
Groups(track) ==
    {[f \in Paths |-> GroupFile(kind, root[f], track[f], disc[f])] :
        kind \in {"mp3", "mp4"},
        disc \in [Paths -> {None} \cup (0 .. MaxDisc)],
        root \in GroupRoots(track)}

\* Counter(disc.index for disc in discs): the number of files with each disc index
disc_counts(discs) ==
    [d \in {discs[f].val.index : f \in DOMAIN discs} |->
        Cardinality({f \in DOMAIN discs : discs[f].val.index = d})]

RECURSIVE SumOver(_, _)
SumOver(counts, keys) ==
    IF keys = {} THEN 0
    ELSE LET k == CHOOSE k \in keys : TRUE
         IN  counts[k] + SumOver(counts, keys \ {k})

\* increments that also count the files of the disc itself
disc_increments_inclusive(counts) ==
    [index \in DOMAIN counts |->
        SumOver(counts, {i \in DOMAIN counts : i <= index})]

\* disc_increments: for each disc index, the files on the discs before it
disc_increments(counts) ==
    [index \in DOMAIN counts |->
        SumOver(counts, {i \in DOMAIN counts : i < index})]

InitFlatten ==
    /\ \E track \in GroupTracks : store \in Groups(track)
    /\ ret = <<>>
    /\ fl = NoFlatten
    /\ begun = store
    /\ rewrites = [f \in Paths |-> 0]
    /\ PartIdle /\ TextIdle /\ MoveIdle

Running == fl.pc \in {"set", "del"}

\* flatten_discs(paths, dry_run) up to its first write: lines 26-37
FlattenBegin(dry_run) ==
    /\ ~Running
    /\ LET discs == [f \in Paths |-> get_disc(store[f])]
           tracks == [f \in Paths |-> get_track(store[f], TRUE)]
           counts == disc_counts(discs)
       IN  fl' = IF \E f \in Paths : discs[f].err # "" \/ tracks[f].err # ""
                 THEN [fl EXCEPT !.pc = "raised", !.i = 0, !.dry_run = dry_run,
                                 !.inc = <<>>]
                 ELSE IF (\A d \in DOMAIN counts : Truthy(d))
                          /\ Cardinality(DOMAIN counts) > 1
                 THEN [fl EXCEPT !.pc = "set", !.i = 1, !.dry_run = dry_run,
                                 !.inc = disc_increments(counts)]
                 ELSE [fl EXCEPT !.pc = "done", !.i = 0, !.dry_run = dry_run,
                                 !.inc = <<>>]
    /\ begun' = store
    /\ UNCHANGED <<store, ret, rewrites, partVars, textVars, moveVars>>

\* the loop's set_track of the file at hand: lines 39-46
FlattenSet ==
    /\ fl.pc = "set"
    /\ LET path == fl.i
           track_disc == get_disc(store[path])
           track_number == get_track(store[path], TRUE)
           part == Part(track_number.val.index + fl.inc[track_disc.val.index],
                        Len(store))
           w == set_track(store[path], part, fl.dry_run)
       IN  IF track_disc.err # "" \/ track_number.err # "" \/ w.err # ""
           THEN /\ fl' = [fl EXCEPT !.pc = "raised"]
                /\ UNCHANGED <<store, rewrites>>
           ELSE /\ store' = [store EXCEPT ![path] = w.file]
                /\ rewrites' = [rewrites EXCEPT ![path] =
                                   IF w.saved /\ fl.inc[track_disc.val.index] > 0
                                   THEN @ + 1 ELSE @]
                /\ fl' = [fl EXCEPT !.pc = "del"]
    /\ UNCHANGED <<ret, begun, partVars, textVars, moveVars>>

\* the loop's del_disc of the file at hand, given its path: line 48
FlattenDel ==
    /\ fl.pc = "del"
    /\ LET w == del_disc_str(store[fl.i], fl.dry_run)
       IN  store' = [store EXCEPT ![fl.i] = w.file]
    /\ fl' = IF fl.i = Len(store) THEN [fl EXCEPT !.pc = "done"]
             ELSE [fl EXCEPT !.pc = "set", !.i = @ + 1]
    /\ UNCHANGED <<ret, begun, rewrites, partVars, textVars, moveVars>>

\* the process is interrupted during a run
Interrupt ==
    /\ Running
    /\ fl.interrupts < MaxInterrupts
    /\ fl' = [fl EXCEPT !.pc = "idle", !.interrupts = @ + 1]
    /\ UNCHANGED <<store, ret, begun, rewrites, partVars, textVars, moveVars>>

\* flatten_discs run, and run again, to its end
NextFlattenRun ==
    \/ \E dry_run \in BOOLEAN : FlattenBegin(dry_run)
    \/ FlattenSet
    \/ FlattenDel

SpecFlattenRun == InitFlatten /\ [][NextFlattenRun]_vars

\* the same with runs interrupted
NextFlatten ==
    \/ \E dry_run \in BOOLEAN : FlattenBegin(dry_run)
    \/ FlattenSet
    \/ FlattenDel
    \/ Interrupt

SpecFlatten == InitFlatten /\ [][NextFlatten]_vars

\* the disc index and the track index flatten_discs reads for a file
DiscOf(file) == get_disc(file).val.index

TrackOf(file) == get_track(file, TRUE).val.index

\* the group flatten_discs acts on: every file has a readable track index, every
\* disc index is present and not 0, and more than one disc index occurs
Flattenable(group) ==
    /\ \A f \in DOMAIN group : get_track(group[f], TRUE).err = ""
    /\ \A f \in DOMAIN group :
           get_disc(group[f]).err = "" /\ DiscOf(group[f]) \notin {None, 0}
    /\ Cardinality({DiscOf(group[f]) : f \in DOMAIN group}) > 1

\* the files of the group on discs with a strictly smaller disc index
FilesBefore(group, f) ==
    {g \in DOMAIN group : DiscOf(group[g]) < DiscOf(group[f])}

\* each disc's files carry the track indices 1 .. (files on that disc)
NumberedPerDisc(group) ==
    \A f \in DOMAIN group :
        LET onDisc == {g \in DOMAIN group : DiscOf(group[g]) = DiscOf(group[f])}
        IN  {TrackOf(group[g]) : g \in onDisc} = 1 .. Cardinality(onDisc)

\* a run with dry_run false, begun on a group it acts on, has returned
Flattened == fl.pc = "done" /\ ~fl.dry_run /\ Flattenable(begun)

\* C5: flatten_discs (dry_run false) on a group of N files with readable track
\* indices, present non-zero disc indices and more than one disc rewrites each
\* file's track to (its track index + the files on discs with a smaller index, N)
\* and removes its disc tag; when each disc's files are numbered 1..(files on the
\* disc), the resulting track indices are exactly 1..N.
C5_flatten_result ==
    Flattened =>
        /\ \A f \in Paths :
               /\ Embedded(store[f]) =
                      Part(TrackOf(begun[f]) + Cardinality(FilesBefore(begun, f)),
                           NumFiles)
               /\ store[f].TPOS = <<>> /\ store[f].disk = <<>>
        /\ NumberedPerDisc(begun) =>
               {Embedded(store[f]).index : f \in Paths} = 1 .. NumFiles

\* a group with two files on disc 1 (tracks 1, 2) and the last file on disc 2
\* (track 1) has been flattened
C5_witness ==
    /\ Flattened
    /\ NumberedPerDisc(begun)
    /\ DiscOf(begun[1]) = 1 /\ DiscOf(begun[2]) = 1 /\ DiscOf(begun[NumFiles]) = 2
    /\ TrackOf(begun[NumFiles]) = 1
    /\ Embedded(store[NumFiles]).index > 1

\* C6: a track that a run of flatten_discs has rewritten with a disc offset is
\* never rewritten with a disc offset again by a later run, whether the earlier
\* run completed or was interrupted between two persisted writes.
C6_offset_applied_once == \A f \in DOMAIN rewrites : rewrites[f] <= 1

(***************************************************************************)
(* util.sanitize: the substitutions in the order of the code, each a       *)
(* left-to-right scan for the leftmost matches that do not overlap, as     *)
(* re.sub makes it.                                                        *)
(***************************************************************************)
Upper ==
    {"A", "B", "C", "D", "E", "F", "G", "H", "I", "J", "K", "L", "M",
     "N", "O", "P", "Q", "R", "S", "T", "U", "V", "W", "X", "Y", "Z"}

Lower ==
    {"a", "b", "c", "d", "e", "f", "g", "h", "i", "j", "k", "l", "m",
     "n", "o", "p", "q", "r", "s", "t", "u", "v", "w", "x", "y", "z"}

Letters == Upper \cup Lower

Alnum == Digits \cup Letters

\* the word characters and the whitespace of the regular expressions
WordChars == Alnum \cup {"_"}

Space == {" "}

\* the characters a string of the model cannot hold, written as their code points:
\* the grave accent, e with acute accent, and the combining acute accent (of
\* category Mn)
Backtick == "U+0060"

EAcute == "U+00E9"

CombiningAcute == "U+0301"

\* string.punctuation
punctuation ==
    {"!", "\"", "#", "$", "%", "&", "'", "(", ")", "*", "+", ",", "-", ".", "/", ":",
     ";", "<", "=", ">", "?", "@", "[", "\\", "]", "^", "_", Backtick, "{", "|", "}", "~"}

\* unicodedata.normalize("NFKD", char): U+00E9 decomposes, ASCII does not
NFKD(char) == IF char = EAcute THEN <<"e", CombiningAcute>> ELSE <<char>>

RECURSIVE remove_accents(_)
\* lines 16-20
remove_accents(string) ==
    IF string = <<>> THEN <<>>
    ELSE SelectSeq(NFKD(Head(string)), LAMBDA c : c # CombiningAcute)
             \o remove_accents(Tail(string))

\* the first place at or after i that holds no whitespace
RECURSIVE SkipSpace(_, _)
SkipSpace(string, i) ==
    IF i <= Len(string) /\ string[i] \in Space THEN SkipSpace(string, i + 1) ELSE i

RECURSIVE initials(_, _)
\* line 22, from place i on: a capital letter at a word boundary followed by a
\* period and an optional space, or by a space, becomes the letter and a space
initials(string, i) ==
    IF i > Len(string) THEN <<>>
    ELSE IF /\ string[i] \in Upper
            /\ (i = 1 \/ string[i - 1] \notin WordChars)
            /\ i + 1 <= Len(string)
            /\ string[i + 1] \in {".", " "}
    THEN LET end == IF string[i + 1] = "." /\ i + 2 <= Len(string) /\ string[i + 2] = " "
                    THEN i + 2 ELSE i + 1
         IN  <<string[i], " ">> \o initials(string, end + 1)
    ELSE <<string[i]>> \o initials(string, i + 1)

RECURSIVE spaced_sub(_, _, _, _)
\* lines 24, 26 and 30, from place i on: one of chars with the whitespace around
\* it becomes repl
spaced_sub(string, i, chars, repl) ==
    IF i > Len(string) THEN <<>>
    ELSE LET j == SkipSpace(string, i)
         IN  IF j <= Len(string) /\ string[j] \in chars
             THEN repl \o spaced_sub(string, SkipSpace(string, j + 1), chars, repl)
             ELSE <<string[i]>> \o spaced_sub(string, i + 1, chars, repl)

RECURSIVE collapse(_, _)
\* line 28, from place i on: a hyphen or an apostrophe between two letters goes,
\* and the scan goes on after the second letter
collapse(string, i) ==
    IF i > Len(string) THEN <<>>
    ELSE IF /\ i + 2 <= Len(string)
            /\ string[i] \in Letters
            /\ string[i + 1] \in {"-", "'"}
            /\ string[i + 2] \in Letters
    THEN <<string[i], string[i + 2]>> \o collapse(string, i + 3)
    ELSE <<string[i]>> \o collapse(string, i + 1)

\* the first place after j that holds the character close, 0 when there is none
Closing(string, j, close) ==
    IF \E k \in (j + 1) .. Len(string) : string[k] = close
    THEN CHOOSE k \in (j + 1) .. Len(string) :
             string[k] = close /\ \A m \in (j + 1) .. (k - 1) : string[m] # close
    ELSE 0

RECURSIVE parenthetical(_, _, _, _)
\* lines 32-33, from place i on: a span from open to the first close, with the
\* whitespace around it, becomes the span's inside between two hyphens
parenthetical(string, i, open, close) ==
    IF i > Len(string) THEN <<>>
    ELSE LET j == SkipSpace(string, i)
             k == IF j <= Len(string) /\ string[j] = open
                  THEN Closing(string, j, close) ELSE 0
         IN  IF k # 0
             THEN <<"-">> \o SubSeq(string, j + 1, k - 1) \o <<"-">>
                      \o parenthetical(string, SkipSpace(string, k + 1), open, close)
             ELSE <<string[i]>> \o parenthetical(string, i + 1, open, close)

\* line 35: a double quote, dollar, percent, apostrophe or comma becomes a space
other_punctuation(string) ==
    [k \in 1 .. Len(string) |->
        IF string[k] \in {"\"", "$", "%", "'", ","} THEN " " ELSE string[k]]

RECURSIVE whitespace(_, _)
\* line 37, from place i on: a run of whitespace becomes one underscore
whitespace(string, i) ==
    IF i > Len(string) THEN <<>>
    ELSE IF string[i] \in Space
    THEN <<"_">> \o whitespace(string, SkipSpace(string, i))
    ELSE <<string[i]>> \o whitespace(string, i + 1)

RECURSIVE strip(_, _)
\* line 39: string.strip(chars)
strip(string, chars) ==
    IF string # <<>> /\ Head(string) \in chars THEN strip(Tail(string), chars)
    ELSE IF string # <<>> /\ string[Len(string)] \in chars
    THEN strip(SubSeq(string, 1, Len(string) - 1), chars)
    ELSE string

\* a pipeline that replaces the separator punctuation before it collapses the
\* hyphens and apostrophes between letters
pipeline_separators_first(string) ==
    strip(whitespace(other_punctuation(
        parenthetical(parenthetical(
            collapse(spaced_sub(
                spaced_sub(spaced_sub(
                    initials(remove_accents(string), 1),
                    1, {"&", "+"}, <<" ", "a", "n", "d", " ">>),
                    1, {"@"}, <<" ", "a", "t", " ">>),
                1, {"!", ".", ":", ";", "?"}, <<"-">>), 1),
            1, "(", ")"), 1, "[", "]")), 1), punctuation)

\* lines 16-39 of sanitize: the string before the assertion
pipeline(string) ==
    strip(whitespace(other_punctuation(
        parenthetical(parenthetical(
            spaced_sub(collapse(
                spaced_sub(spaced_sub(
                    initials(remove_accents(string), 1),
                    1, {"&", "+"}, <<" ", "a", "n", "d", " ">>),
                    1, {"@"}, <<" ", "a", "t", " ">>),
                1), 1, {"!", ".", ":", ";", "?"}, <<"-">>),
            1, "(", ")"), 1, "[", "]")), 1), punctuation)

\* is_sanitized, line 11: the whole string is an alphanumeric, then one or more
\* of hyphen, underscore and alphanumeric, then an alphanumeric
is_sanitized(string) ==
    /\ Len(string) >= 3
    /\ string[1] \in Alnum
    /\ \A k \in 2 .. (Len(string) - 1) : string[k] \in Alnum \cup {"-", "_"}
    /\ string[Len(string)] \in Alnum

\* what a call of sanitize gave: the name, or the AssertionError of line 41
Name(string) == [err |-> "", val |-> string]
NameRaise(e) == [err |-> e, val |-> <<>>]

sanitize(string) ==
    IF is_sanitized(pipeline(string)) THEN Name(pipeline(string))
    ELSE NameRaise("AssertionError")

(***************************************************************************)
(* sanitize called on a text, and called again on the name it gave.        *)
(***************************************************************************)
\* tests/test_util.py, data: each raw value with the output expected of it
TestData ==
    {
    [value |-> <<"J", ".", " ", "K", ".", " ", "R", "o", "w", "l", "i", "n", "g">>,
     output |-> <<"J", "_", "K", "_", "R", "o", "w", "l", "i", "n", "g">>],
    [value |-> <<"J", ".", "K", ".", "R", "o", "w", "l", "i", "n", "g">>,
     output |-> <<"J", "_", "K", "_", "R", "o", "w", "l", "i", "n", "g">>],
    [value |-> <<"J", " ", "K", " ", "R", "o", "w", "l", "i", "n", "g">>,
     output |-> <<"J", "_", "K", "_", "R", "o", "w", "l", "i", "n", "g">>],
    [value |-> <<"J", "o", "n", " ", "K", "a", "b", "a", "t", "-", "Z", "i", "n",
               "n">>,
     output |-> <<"J", "o", "n", "_", "K", "a", "b", "a", "t", "Z", "i", "n",
                "n">>],
    [value |-> <<"A", "n", "d", " ", "Y", "e", "t", ".", ".", ".">>,
     output |-> <<"A", "n", "d", "_", "Y", "e", "t">>],
    [value |-> <<"I", "n", "f", "i", "n", "i", "t", "e", " ", "J", "e", "s", "t",
               " ", "(", "A", "b", "r", "i", "d", "g", "e", "d", ")">>,
     output |-> <<"I", "n", "f", "i", "n", "i", "t", "e", "_", "J", "e", "s", "t",
                "-", "A", "b", "r", "i", "d", "g", "e", "d">>],
    [value |-> <<"T", "h", "e", " ", "I", "n", "f", "o", "r", "m", "a", "t", "i",
               "o", "n", ":", " ", "A", " ", "H", "i", "s", "t", "o", "r", "y",
               ",", " ", "a", " ", "T", "h", "e", "o", "r", "y", ",", " ", "a",
               " ", "F", "l", "o", "o", "d">>,
     output |-> <<"T", "h", "e", "_", "I", "n", "f", "o", "r", "m", "a", "t", "i",
                "o", "n", "-", "A", "_", "H", "i", "s", "t", "o", "r", "y", "_",
                "a", "_", "T", "h", "e", "o", "r", "y", "_", "a", "_", "F", "l",
                "o", "o", "d">>],
    [value |-> <<"T", "h", "e", " ", "T", "i", "m", "e", " ", "T", "r", "a", "v",
               "e", "l", "e", "r", "'", "s", " ", "W", "i", "f", "e">>,
     output |-> <<"T", "h", "e", "_", "T", "i", "m", "e", "_", "T", "r", "a", "v",
                "e", "l", "e", "r", "s", "_", "W", "i", "f", "e">>]
    }

\* texts with the characters of the other substitutions
OtherTexts ==
    {
    <<"C", "a", "f", EAcute, " ", "S", "o", "c", "i", "e", "t", "y">>,
    <<"Q", " ", "&", " ", "A">>,
    <<"m", "e", "@", "h", "o", "m", "e">>,
    <<"W", "a", "r", " ", "[", "U", "n", "a", "b", "r", "i", "d", "g", "e",
         "d", "]", " ", "P", "e", "a", "c", "e">>,
    <<"\"", "H", "i", "\"", ",", " ", "s", "h", "e", " ", "s", "a", "i",
         "d">>,
    <<"1", "0", "0", "%", " ", "$", "u", "r", "e">>,
    <<"C", "+", "+", " ", "(", "2", "n", "d", " ", "e", "d", ".", ")">>
    }

\* the characters of the short texts: letters, a digit, the two separators of a
\* name and a period
NameChars == {"a", "Z", "1", "-", "_", "."}

\* the ways an initial is written: period and space, period only, space only
InitialMarks == {<<".", " ">>, <<".">>, <<" ">>}

RECURSIVE Initialled(_, _, _)
\* the initials, each followed by its mark, then the surname
Initialled(letters, marks, surname) ==
    IF letters = <<>> THEN surname
    ELSE <<Head(letters)>> \o Head(marks)
             \o Initialled(Tail(letters), Tail(marks), surname)

RECURSIVE Joined(_, _)
\* the initials, each followed by an underscore, then the surname
Joined(letters, surname) ==
    IF letters = <<>> THEN surname
    ELSE <<Head(letters), "_">> \o Joined(Tail(letters), surname)

Surname == <<"R", "o", "w", "l", "i", "n", "g">>

InitialLetters == {"J", "K"}

\* every way of writing up to MaxInitials initials before the surname
InitialledNames ==
    UNION {{Initialled(letters, marks, Surname) :
                letters \in [1 .. n -> InitialLetters],
                marks \in [1 .. n -> InitialMarks]} : n \in 1 .. MaxInitials}

Title == <<"A", "n", "d", " ", "Y", "e", "t">>

\* a title followed by up to MaxTrail periods, marks and spaces
TrailedTitles == {Title \o t : t \in StringsOver({".", "!", "?", " "}, MaxTrail)}

Texts ==
    {d.value : d \in TestData} \cup OtherTexts \cup StringsOver(NameChars, MaxLen)
        \cup InitialledNames \cup TrailedTitles

InitSanitize ==
    /\ text \in Texts
    /\ out = <<>>
    /\ PartIdle /\ TagIdle /\ MoveIdle

\* sanitize(text)
Sanitize ==
    /\ out = <<>>
    /\ out' = <<sanitize(text)>>
    /\ UNCHANGED <<text, partVars, tagVars, moveVars>>

\* sanitize(sanitize(text))
SanitizeAgain ==
    /\ Len(out) = 1 /\ out[1].err = ""
    /\ out' = Append(out, sanitize(out[1].val))
    /\ UNCHANGED <<text, partVars, tagVars, moveVars>>

NextSanitize == Sanitize \/ SanitizeAgain

SpecSanitize == InitSanitize /\ [][NextSanitize]_vars

\* the accepted-name grammar as the specification words it: at least 2 characters,
\* the first and the last alphanumeric, with only alphanumerics, hyphens and
\* underscores between them
AcceptedName(string) ==
    /\ Len(string) >= 2
    /\ string[1] \in Alnum
    /\ string[Len(string)] \in Alnum
    /\ \A k \in 2 .. (Len(string) - 1) : string[k] \in Alnum \cup {"-", "_"}

\* C7: the check sanitize applies to its result accepts exactly the strings of
\* the accepted-name grammar, 2-character strings included: sanitize returns a
\* string if and only if the result of its substitutions is in that set.
C7_accepts_grammar ==
    out # <<>> => (out[1].err = "" <=> AcceptedName(pipeline(text)))

\* C8: sanitize applied to the name sanitize gave for a text of the accepted-name
\* grammar changes nothing further and does not fail:
\* sanitize(sanitize(x)) = sanitize(x).
C8_sanitize_idempotent ==
    (AcceptedName(text) /\ Len(out) = 2) => out[2] = out[1]

\* C9: sanitize returns the result of the substitutions in the listed order;
\* it gives every raw value of the test table its expected output, and every
\* expected output satisfies is_sanitized; an initialled name gives its initials
\* and the surname joined by single underscores, however the initials are
\* written; a title with trailing punctuation gives the title with no trailing
\* separator.
C9_sanitize_table ==
    out # <<>> =>
        /\ LET accents == remove_accents(text)
               initialled == initials(accents, 1)
               ands == spaced_sub(initialled, 1, {"&", "+"}, <<" ", "a", "n", "d", " ">>)
               ats == spaced_sub(ands, 1, {"@"}, <<" ", "a", "t", " ">>)
               collapsed == collapse(ats, 1)
               separated == spaced_sub(collapsed, 1, {"!", ".", ":", ";", "?"}, <<"-">>)
               round == parenthetical(separated, 1, "(", ")")
               square == parenthetical(round, 1, "[", "]")
               spaced == other_punctuation(square)
               underscored == whitespace(spaced, 1)
               trimmed == strip(underscored, punctuation)
           IN  out[1].err = "" => out[1].val = trimmed
        /\ \A d \in TestData :
               /\ is_sanitized(d.output)
               /\ text = d.value => out[1] = Name(d.output)
        /\ \A n \in 1 .. MaxInitials :
               \A letters \in [1 .. n -> InitialLetters], marks \in [1 .. n -> InitialMarks] :
                   text = Initialled(letters, marks, Surname)
                       => out[1] = Name(Joined(letters, Surname))
        /\ text \in TrailedTitles =>
               out[1] = Name(<<"A", "n", "d", "_", "Y", "e", "t">>)
        /\ out[1].err = "" =>
               out[1].val[Len(out[1].val)] \notin punctuation

\* sanitize has been called on "J.K.Rowling" and has given "J_K_Rowling"
C9_witness ==
    /\ text = <<"J", ".", "K", ".", "R", "o", "w", "l", "i", "n", "g">>
    /\ out = <<Name(<<"J", "_", "K", "_", "R", "o", "w", "l", "i", "n", "g">>)>>

(***************************************************************************)
(* util.move on the entries of a directory: each name is absent, a file    *)
(* with its content, or a symbolic link to a name.                         *)
(***************************************************************************)
Names == 1 .. NumNames

Absent == [kind |-> "absent", data |-> 0, to |-> 0]
Regular(data) == [kind |-> "file", data |-> data, to |-> 0]
Link(to) == [kind |-> "link", data |-> 0, to |-> to]

RECURSIVE Resolve(_, _, _)
\* the name the links lead to from p, followed through at most n links
Resolve(dir, p, n) ==
    IF dir[p].kind = "link" /\ n > 0 THEN Resolve(dir, dir[p].to, n - 1) ELSE p

\* os.path.realpath(p)
realpath(dir, p) == Resolve(dir, p, NumNames)

\* os.path.exists(p): false for a name that is absent and for a broken link
exists(dir, p) == dir[realpath(dir, p)].kind = "file"

\* os.renames(src, dst): the entry at src takes the name dst, replacing what is there
renames(dir, src, dst) == [dir EXCEPT ![dst] = dir[src], ![src] = Absent]

\* what a call of move gave: the exception raised (or ""), the path returned, and
\* the directory after it
Moved(err, val, dir) == [err |-> err, val |-> val, dir |-> dir]

\* a move that renames without looking whether the destination exists
move_overwriting(dir, src, dst, dry_run) ==
    IF realpath(dir, src) # realpath(dir, dst)
    THEN IF dry_run THEN Moved("", src, dir)
         ELSE IF dir[src].kind = "absent" THEN Moved("FileNotFoundError", 0, dir)
         ELSE Moved("", dst, renames(dir, src, dst))
    ELSE Moved("", src, dir)

\* move(src, dst, dry_run), lines 93-100
move(dir, src, dst, dry_run) ==
    IF realpath(dir, src) # realpath(dir, dst)
    THEN IF exists(dir, dst) THEN Moved("FileExistsError", 0, dir)
         ELSE IF dry_run THEN Moved("", src, dir)
         ELSE IF dir[src].kind = "absent" THEN Moved("FileNotFoundError", 0, dir)
         ELSE Moved("", dst, renames(dir, src, dst))
    ELSE Moved("", src, dir)

\* the directories move starts from: a file holds the content named after its
\* first name, a link leads to a name that is no link
Directories ==
    {dir \in [Names -> {Absent} \cup {Regular(n) : n \in Names} \cup {Link(n) : n \in Names}] :
        \A n \in Names :
            /\ dir[n].kind = "file" => dir[n].data = n
            /\ dir[n].kind = "link" => dir[n].to # n /\ dir[dir[n].to].kind # "link"}

InitMove ==
    /\ fs \in Directories
    /\ mv = <<>>
    /\ cz = NoCanon /\ loc = <<>>
    /\ PartIdle /\ TagIdle /\ TextIdle

Move(src, dst, dry_run) ==
    /\ LET m == move(fs, src, dst, dry_run)
       IN  /\ fs' = m.dir
           /\ mv' = <<[src |-> src, dst |-> dst, dry_run |-> dry_run, before |-> fs,
                       err |-> m.err, val |-> m.val]>>
    /\ UNCHANGED <<cz, loc, partVars, tagVars, textVars>>

NextMove == \E src, dst \in Names, dry_run \in BOOLEAN : Move(src, dst, dry_run)

SpecMove == InitMove /\ [][NextMove]_vars

\* the content a path leads to: that of the file its links end at, 0 when none
Content(dir, p) == dir[realpath(dir, p)].data

\* no chain of links comes back to where it starts
NoLinkLoop == \A p \in Names : fs[Resolve(fs, p, NumNames)].kind # "link"

\* C10: move never overwrites. When src and dst resolve to the same real path
\* nothing changes and src is returned; when they differ and dst exists, move
\* fails with FileExistsError and nothing changes; only when they differ, dst
\* does not exist and dry_run is false is src renamed to dst and dst returned; a
\* destination that existed before the call keeps its content.
C10_move_never_overwrites ==
    mv # <<>> =>
        LET c == mv[1]
            same == realpath(c.before, c.src) = realpath(c.before, c.dst)
            there == c.before[realpath(c.before, c.dst)].kind = "file"
        IN  /\ same => c.err = "" /\ c.val = c.src /\ fs = c.before
            /\ (~same /\ there) => c.err = "FileExistsError" /\ fs = c.before
            /\ (~same /\ ~there /\ c.dry_run) =>
                   c.err = "" /\ c.val = c.src /\ fs = c.before
            /\ (~same /\ ~there /\ ~c.dry_run /\ c.before[c.src].kind # "absent") =>
                   /\ c.err = "" /\ c.val = c.dst
                   /\ fs[c.dst] = c.before[c.src] /\ fs[c.src] = Absent
                   /\ \A n \in Names \ {c.src, c.dst} : fs[n] = c.before[n]
            /\ fs # c.before => (~same /\ ~there /\ ~c.dry_run)
            /\ there => Content(fs, c.dst) = Content(c.before, c.dst)

\* move was called with no dry run on a file and on another name that leads to a
\* file, and has failed
C10_witness ==
    /\ mv # <<>>
    /\ ~mv[1].dry_run
    /\ mv[1].before[mv[1].src].kind = "file"
    /\ mv[1].before[mv[1].dst].kind = "link"
    /\ mv[1].before[mv[1].before[mv[1].dst].to].kind = "file"
    /\ mv[1].before[mv[1].dst].to # mv[1].src
    /\ mv[1].err = "FileExistsError"

(***************************************************************************)
(* Part.from_string called on any text, and on the text set_track_mp3      *)
(* formats from a Part.                                                    *)
(***************************************************************************)
\* the Parts formatted: both fields numbers, of one digit or more
FormatParts == WriteParts \cup ExampleParts \cup {Part(10, 0), Part(0, 10)}

InitFromString ==
    /\ primary \in FormatParts \cup {Part(None, None)}
    /\ given \in (IF primary = Part(None, None)
                   THEN StringsOver(TagChars, MaxTagLen) ELSE {<<>>})
    /\ parsed = NotCalled
    /\ secondary = Part(None, None)
    /\ raise_on_conflicts = FALSE
    /\ merged = NotCalled
    /\ TagIdle /\ TextIdle /\ MoveIdle

\* f"{index}/{total}" of the Part at hand (set_track_mp3, lines 136-137)
Format ==
    /\ primary # Part(None, None)
    /\ given = <<>> /\ parsed = NotCalled
    /\ given' = TRCK_text(primary)
    /\ UNCHANGED <<primary, secondary, raise_on_conflicts, merged, parsed,
                   tagVars, textVars, moveVars>>

\* Part.from_string(given)
FromString ==
    /\ parsed = NotCalled
    /\ parsed' = from_string(given)
    /\ UNCHANGED <<primary, secondary, raise_on_conflicts, merged, given,
                   tagVars, textVars, moveVars>>

NextFromString == Format \/ FromString

SpecFromString == InitFromString /\ [][NextFromString]_vars

\* the value of a segment: None when it is empty, else its number
Segment(s) == IF s = <<>> THEN None ELSE IntOf(s)

\* C11: from_string splits on the first "/": a non-empty left segment is the
\* index, a non-empty right segment the total, an empty segment is None; without
\* "/" the whole string is the index and the total is None; the empty string
\* gives (None, None); it fails only when a non-empty segment is not a number;
\* and the text "<i>/<t>" formatted from Part(i, t) gives Part(i, t) back.
C11_from_string ==
    parsed # NotCalled =>
        LET slashes == {k \in 1 .. Len(given) : given[k] = "/"}
            first == CHOOSE k \in slashes : \A j \in slashes : k <= j
            left == IF slashes = {} THEN given ELSE SubSeq(given, 1, first - 1)
            right == IF slashes = {} THEN <<>>
                     ELSE SubSeq(given, first + 1, Len(given))
            number(s) == s # <<>> /\ \A k \in 1 .. Len(s) : s[k] \in Digits
        IN  /\ parsed.err \in {"", "ValueError"}
            /\ parsed.err # "" =>
                   \/ left # <<>> /\ ~number(left)
                   \/ right # <<>> /\ ~number(right)
            /\ parsed.err = "" => parsed.val = Part(Segment(left), Segment(right))
            /\ (left = <<>> \/ number(left)) /\ (right = <<>> \/ number(right))
                   => parsed.err = ""
            /\ given = <<>> => parsed = Ok(Part(None, None))
            /\ primary # Part(None, None) /\ given = TRCK_text(primary)
                   => parsed = Ok(primary)

\* the text formatted from Part(0, 10) has been parsed back into it
C11_witness ==
    /\ primary = Part(0, 10)
    /\ given = <<"0", "/", "1", "0">>
    /\ parsed = Ok(Part(0, 10))

(***************************************************************************)
(* canonicalize on one group of files (one artist, one album): the album   *)
(* directory "top" holds files of the group, others files of another       *)
(* album, and a subdirectory "sub" with files of the group; the canonical  *)
(* directory "canon" (with "canonsub" below it) does not exist yet.        *)
(***************************************************************************)
\* the number of audio files of another group in the album directory
MaxOthers == 1

Artist == <<"A", "b", "c">>

\* the album names: one that sanitize accepts and one it fails on
Albums == {<<"X", "y", "z">>, <<"I", "t">>}

\* len(list(filter(is_audio, os.listdir(dirname)))) for the directory l
audio_count(lc, others, l) ==
    Cardinality({f \in Paths : lc[f] = l}) + (IF l = "top" THEN others ELSE 0)

\* the files as persisted, each with the count of its directory
Recount(st, lc, others) ==
    [f \in Paths |-> [st[f] EXCEPT !.ndir = audio_count(lc, others, lc[f])]]

\* a file of the group with a track tag of the given index and total (None:
\* no tag for the index, no total in the tag)
TaggedFile(kind, root, index, total) ==
    IF kind = "mp3"
    THEN File("mp3", <<2, 3>>,
              IF index = None THEN <<>>
              ELSE IF total = None THEN <<Str(index)>>
              ELSE <<Str(index) \o <<"/">> \o Str(total)>>,
              <<>>, <<>>, <<>>, root, 0)
    ELSE File("mp4", <<0, 0>>, <<>>, <<>>,
              IF index = None THEN <<>>
              ELSE IF total = None THEN << <<index, 0>> >>
              ELSE << <<index, total>> >>,
              <<>>, root, 0)

\* the base name of the file at place f: its number, or letters only
RootOf(names, f) == IF names = "numbered" THEN Str(f) ELSE [k \in 1 .. f |-> "a"]

\* the total of the track tag of the file at place f: none, the number of audio
\* files in its directory, or the number of files of the group
TotalOf(tags, lc, others, f) ==
    IF tags = "dir" THEN audio_count(lc, others, lc[f])
    ELSE IF tags = "group" THEN NumFiles
    ELSE None

InitCanon ==
    /\ \E kind \in {"mp3", "mp4"}, names \in {"numbered", "plain"},
          tags \in {"none", "index", "dir", "group"}, others \in 0 .. MaxOthers,
          album \in Albums :
          /\ loc \in [Paths -> {"top", "sub"}]
          /\ store = Recount([f \in Paths |->
                                TaggedFile(kind, RootOf(names, f),
                                           IF tags = "none" THEN None ELSE f,
                                           TotalOf(tags, loc, others, f))],
                             loc, others)
          /\ cz = [NoCanon EXCEPT !.others = others, !.album = album, !.paths = loc,
                                  !.read = [f \in Paths |-> Part(None, None)]]
    /\ begun = store
    /\ ret = <<>> /\ fl = NoFlatten /\ rewrites = <<>>
    /\ fs = <<>> /\ mv = <<>>
    /\ PartIdle /\ TextIdle

\* get_track_info(source, ignore_conflicts): the embedded Part of the container,
\* merged with the Part inferred from the filesystem, fails when a field of the
\* result is absent; these are the steps of get_track
get_track_info(file, ignore_conflicts) == get_track(file, ignore_conflicts)

\* set_track_info(target, part, dry_run): the steps of set_track
set_track_info(file, part, dry_run) == set_track(file, part, dry_run)

\* f"{track_number:0{part_width}}": the decimal digits, zero-padded to the width
Pad(digits, width) ==
    IF Len(digits) >= width THEN digits
    ELSE [k \in 1 .. (width - Len(digits)) |-> "0"] \o digits

\* the directory the group's paths have in common is a directory whose audio
\* files are exactly the group (lines 68-70)
MovesDirectory(lc, others) ==
    /\ NumFiles > 1
    /\ (\A f \in Paths : lc[f] = "sub") \/ others = 0

\* where the files are once the common directory has been renamed to the
\* canonical one
InCanon(lc) ==
    IF \A f \in Paths : lc[f] = "sub" THEN [f \in Paths |-> "canon"]
    ELSE [f \in Paths |-> IF lc[f] = "top" THEN "canon" ELSE "canonsub"]

\* canonicalize up to the loop over the files: lines 61-82
CanonBegin(dry_run) ==
    /\ cz.pc = "idle"
    /\ IF ~MovesDirectory(loc, cz.others)
       THEN /\ cz' = [cz EXCEPT !.pc = "file", !.i = 1, !.dry_run = dry_run]
            /\ UNCHANGED <<loc, store>>
       ELSE IF sanitize(Artist).err # "" \/ sanitize(cz.album).err # ""
       THEN /\ cz' = [cz EXCEPT !.pc = "raised", !.dry_run = dry_run,
                                !.err = "AssertionError"]
            /\ UNCHANGED <<loc, store>>
       ELSE /\ cz' = [cz EXCEPT !.pc = "file", !.i = 1, !.dry_run = dry_run]
            /\ loc' = IF dry_run THEN loc ELSE InCanon(loc)
            /\ store' = Recount(store, loc', cz.others)
    /\ UNCHANGED <<fs, mv, ret, fl, begun, rewrites, partVars, textVars>>

\* one file of the group: lines 85-102
CanonFile ==
    /\ cz.pc = "file"
    /\ LET f == cz.i
           part == get_track_info(store[f], FALSE)
           name == Pad(StrNat(part.val.index), Len(Str(part.val.total)))
           same == loc[f] = "canon" /\ store[f].root = name
           taken == \E g \in Paths : loc[g] = "canon" /\ store[g].root = name
           moved == ~same /\ ~cz.dry_run
           at == IF moved THEN [store[f] EXCEPT !.root = name] ELSE store[f]
           w == set_track_info(at, part.val, cz.dry_run)
           err == IF part.err # "" THEN part.err
                  ELSE IF sanitize(Artist).err # "" \/ sanitize(cz.album).err # ""
                  THEN "AssertionError"
                  ELSE IF ~same /\ taken THEN "FileExistsError"
                  ELSE ""
       IN  IF err # ""
           THEN /\ cz' = [cz EXCEPT !.pc = "raised", !.err = err]
                /\ UNCHANGED <<loc, store>>
           ELSE /\ loc' = IF moved THEN [loc EXCEPT ![f] = "canon"] ELSE loc
                /\ store' = Recount([store EXCEPT ![f] = w.file], loc', cz.others)
                /\ cz' = [cz EXCEPT !.read[f] = part.val,
                                    !.pc = IF w.err # "" THEN "raised"
                                           ELSE IF f = NumFiles THEN "done" ELSE "file",
                                    !.err = w.err,
                                    !.i = IF f = NumFiles THEN f ELSE f + 1]
    /\ UNCHANGED <<fs, mv, ret, fl, begun, rewrites, partVars, textVars>>

NextCanon ==
    \/ \E dry_run \in BOOLEAN : CanonBegin(dry_run)
    \/ CanonFile

SpecCanon == InitCanon /\ [][NextCanon]_vars

\* the track tag of a file agrees with the filesystem: its total is absent or
\* the number of audio files in the file's directory, its index is absent or
\* the number in the file's name, and the tag or the name gives an index
Agrees(file) ==
    LET tag == Embedded(file)
        name == from_path(file)
    IN  /\ ~Truthy(tag.total) \/ tag.total = file.ndir
        /\ ~Truthy(tag.index) \/ name.index = None \/ tag.index = name.index
        /\ Truthy(tag.index) \/ name.index # None

\* C12: for a group whose track tags agree with the filesystem before the run,
\* or carry no total, canonicalize reads every file without a conflict error,
\* however many files of the group it has already moved, and gives all files
\* of the group the same total.
C12_totals_independent ==
    (\A f \in Paths : Agrees(begun[f])) =>
        /\ cz.err # "ValueError"
        /\ cz.pc = "done" =>
               \A f, g \in Paths : cz.read[f].total = cz.read[g].total

====
